---- MODULE Spec2Model ----
(***************************************************************************)
(* Polymarket anomaly monitor (polymarket_monitor.py): the SQLite stores   *)
(* (seen_trades, wallet_cache, wallet_hits), the wallet-profile cache, the *)
(* scoring function and the polling loop of main().                        *)
(*                                                                         *)
(* Time is in seconds since the epoch, as in the program.  Optional[...]   *)
(* values are sequences: <<>> is None and <<v>> is the value v.            *)
(***************************************************************************)
EXTENDS Integers, Sequences, FiniteSets, TLC

VARIABLES
    now,            \* the wall clock, what int(time.time()) returns
    seen_trades,    \* table seen_trades: a set of rows
    wallet_cache,   \* table wallet_cache: a set of rows
    wallet_hits,    \* table wallet_hits: rows in AUTOINCREMENT id order
    pc,             \* main(): position in the loop
    trades,         \* main(): the sorted batch of the cycle
    idx,            \* main(): position of `for t in trades` (1-based)
    cluster_hits,   \* main(): local cluster_hits
    profile,        \* main(): local profile
    http_calls,     \* history: account-history requests of the last get_wallet_profile
    profile_src,    \* history: how the last get_wallet_profile ended
    alerts,         \* history: per tx_hash, the alerts printed to the console
    discord,        \* history: the cycle's last send_discord call and its outcome
    cycle_log,      \* history: what the cycle's except clause printed
    marked,         \* history: per tx_hash, the calls of db_mark_trade_seen
    cycles,         \* history: number of cycles started
    ticks,          \* history: number of clock jumps
    evals,          \* history: results of score_trade for one fixed input
    feed,           \* environment: the batch a feed that repeats itself returns
    down            \* environment: the wallets whose history calls fail

vars == <<now, seen_trades, wallet_cache, wallet_hits, pc, trades, idx,
          cluster_hits, profile, http_calls, profile_src,
          alerts, discord, cycle_log, marked, cycles, ticks, evals, feed, down>>

----------------------------------------------------------------------------
(* Configuration                                                           *)

POLL_SECONDS == 8
FRESH_DAYS == 14
LOW_ACTIVITY_MARKETS == 6
CLUSTER_MINUTES == 120
CLUSTER_COUNT == 2
ALERT_SCORE_THRESHOLD == 6
W_FRESH == 3
W_LOW_ACTIVITY == 2
W_BIG_TRADE == 2
W_CLUSTER == 2
BIG_TRADE_TIER_1 == 10000
BIG_TRADE_TIER_2 == 25000
VERY_BIG_BONUS == 1
MAX_AGE_SECONDS == 6 * 3600
DAY_SECONDS == 86400

\* title_allowed's keyword lists, as sequences of characters
INCLUDE_KEYWORDS == {}
EXCLUDE_KEYWORDS == { <<"s", "p", "o", "r", "t", "s">> }

----------------------------------------------------------------------------
(* Bounds of the model                                                     *)

MaxBatch == 2       \* rows the feed returns in one poll
MaxCycles == 2      \* polling cycles started
MaxTicks == 1       \* clock jumps besides the sleeps
MaxEvals == 2       \* evaluations of score_trade on one input
MaxMarks == 2       \* calls of db_mark_trade_seen for one tx_hash, store harness
MaxStoreHits == 2   \* rows of wallet_hits, store harness
MaxFairBatch == 1    \* rows the feed returns in one poll, runs checked for progress

----------------------------------------------------------------------------
(* Optional values                                                         *)

None == <<>>
Some(v) == <<v>>
IsNone(x) == x = <<>>
Val(x) == x[1]

----------------------------------------------------------------------------
(* The inputs: clock, feed rows, account-history answers                   *)

Now0 == 1700 * 1000000

\* Python's order on the transaction hashes of the model ("" < "0xa" < ...)
HashOrder == <<"", "0xa", "0xb", "0xc">>
HashRank(h) == CHOOSE k \in 1..Len(HashOrder) : HashOrder[k] = h
Hashes == {HashOrder[k] : k \in 1..Len(HashOrder)}

TitleOk == <<"V", "o", "t", "e">>
TitleSports == <<"N", "B", "A", " ", "S", "p", "o", "r", "t", "s">>

MkTrade(tx, w, ts, sz, pr, ti) ==
    [tx_hash |-> tx, proxy_wallet |-> w, timestamp |-> ts,
     size |-> sz, price |-> pr, title |-> ti, condition_id |-> "m1"]

TradeA == MkTrade("0xa", "w1", Now0 - 60, 1000, 20, TitleOk)
TradeB == MkTrade("0xb", "w1", Now0 - 30, 1000, 30, TitleOk)
TradeC == MkTrade("0xc", "w2", Now0 - 3 * 3600, 700, 10, TitleOk)
TradeA2 == MkTrade("0xa", "w2", Now0 - 30, 1000, 20, TitleOk)
\* a row whose size is "-1000": float() takes the sign, the row is kept
TradeNeg == MkTrade("0xa", "w2", Now0 - 30, -1000, 20, TitleOk)
TradeNoTx == MkTrade("", "w1", Now0 - 30, 1000, 20, TitleOk)
TradeNoWallet == MkTrade("0xb", "", Now0 - 30, 1000, 20, TitleOk)
TradeSports == MkTrade("0xc", "w1", Now0 - 30, 1000, 20, TitleSports)

\* the rows the /trades feed can return
FeedTrades == {TradeA, TradeB, TradeC, TradeNoTx, TradeNoWallet, TradeSports}
\* every trade the store functions and score_trade are applied to
AllTrades == FeedTrades \cup {TradeA2, TradeNeg}
Wallets == {"w1", "w2"}

\* what /traded, /activity (oldest) and /activity (24h) can answer
TradedAnswers == {None, Some(0), Some(3), Some(7)}
FirstSeenAnswers == {None, Some(0), Some(Now0 - 5 * DAY_SECONDS),
                     Some(Now0 - FRESH_DAYS * DAY_SECONDS)}
RecentCashAnswers == {None, Some(500)}

\* the answers of the three requests of one get_wallet_profile, in the polling loop
HistoryAnswers ==
    { <<None, None, None>>,
      <<Some(3), Some(Now0 - 5 * DAY_SECONDS), Some(500)>> }

\* how far the clock can jump while the program waits
ClockJumps == {MAX_AGE_SECONDS}

----------------------------------------------------------------------------
(* Trade and the SQLite tables                                             *)

\* Trade.est_cash: size * price
est_cash(t) == t.size * t.price

\* mutant: the ledger is looked up by the wallet instead of the transaction
db_seen_trade_by_wallet(tbl, tx_hash) == \E r \in tbl : r.wallet = tx_hash

\* SELECT 1 FROM seen_trades WHERE tx_hash = ?
db_seen_trade(tbl, tx_hash) == \E r \in tbl : r.tx_hash = tx_hash

SeenRow(t) ==
    [tx_hash |-> t.tx_hash, timestamp |-> t.timestamp,
     wallet |-> t.proxy_wallet, condition_id |-> t.condition_id]

\* mutant: the primary key is the wallet, a wallet's newer row replacing its older one
db_mark_trade_seen_wallet_key(tbl, t) ==
    {r \in tbl : r.wallet # t.proxy_wallet} \cup {SeenRow(t)}

\* mutant: a plain insert into a table without the primary key
db_mark_trade_seen_dup(tbl, t) == tbl \cup {SeenRow(t)}

\* INSERT OR REPLACE INTO seen_trades, tx_hash being the PRIMARY KEY
db_mark_trade_seen(tbl, t) ==
    {r \in tbl : r.tx_hash # t.tx_hash} \cup {SeenRow(t)}

CacheRow(p, at) ==
    [wallet |-> p.wallet, traded_markets |-> p.traded_markets,
     first_seen_ts |-> p.first_seen_ts, recent_cash_24h |-> p.recent_cash_24h,
     updated_at |-> at]

WalletProfile(w, traded, first_seen, recent) ==
    [wallet |-> w, traded_markets |-> traded, first_seen_ts |-> first_seen,
     recent_cash_24h |-> recent]

\* mutant: the boundary is excluded
CacheFreshStrict(row, clock, max_age_seconds) ==
    (clock - row.updated_at) < max_age_seconds

\* the cache is fresh while now - updated_at <= max_age_seconds
CacheFresh(row, clock, max_age_seconds) ==
    (clock - row.updated_at) <= max_age_seconds

\* db_get_wallet_cache: the cached profile, or None (no row, or a stale one)
db_get_wallet_cache(tbl, wallet, clock, max_age_seconds) ==
    LET rows == {r \in tbl : r.wallet = wallet} IN
    IF rows = {} THEN None
    ELSE LET row == CHOOSE r \in rows : TRUE IN
         IF CacheFresh(row, clock, max_age_seconds)
         THEN Some(WalletProfile(wallet, row.traded_markets, row.first_seen_ts,
                                 row.recent_cash_24h))
         ELSE None

\* INSERT OR REPLACE INTO wallet_cache, wallet being the PRIMARY KEY;
\* updated_at is int(time.time())
db_set_wallet_cache(tbl, p, clock) ==
    {r \in tbl : r.wallet # p.wallet} \cup {CacheRow(p, clock)}

\* INSERT INTO wallet_hits (wallet, hit_ts)
\* mutant: the hit is stamped with the time of the insert
db_add_wallet_hit_now(tbl, wallet, hit_ts) ==
    Append(tbl, [wallet |-> wallet, hit_ts |-> now])

db_add_wallet_hit(tbl, wallet, hit_ts) ==
    Append(tbl, [wallet |-> wallet, hit_ts |-> hit_ts])

\* mutant: the window start is excluded (hit_ts > ?)
db_count_wallet_hits_after(tbl, wallet, since_ts) ==
    Cardinality({k \in DOMAIN tbl : tbl[k].wallet = wallet /\ tbl[k].hit_ts > since_ts})

\* SELECT COUNT(*) FROM wallet_hits WHERE wallet = ? AND hit_ts >= ?
db_count_wallet_hits(tbl, wallet, since_ts) ==
    Cardinality({k \in DOMAIN tbl :
                    tbl[k].wallet = wallet /\ tbl[k].hit_ts >= since_ts})

----------------------------------------------------------------------------
(* Filtering and ordering                                                  *)

UpperCase == <<"A", "B", "N", "S", "V">>
LowerCase == <<"a", "b", "n", "s", "v">>

\* str.lower() on one character
LowerChar(c) ==
    IF \E k \in 1..Len(UpperCase) : UpperCase[k] = c
    THEN LowerCase[CHOOSE k \in 1..Len(UpperCase) : UpperCase[k] = c]
    ELSE c

lower(s) == [k \in 1..Len(s) |-> LowerChar(s[k])]

\* Python's `k in t` on strings
Contains(t, k) ==
    \E i \in 0..(Len(t) - Len(k)) : SubSeq(t, i + 1, i + Len(k)) = k

\* mutant: the keywords are matched against the title as written (no .lower())
title_allowed_cased(title) ==
    LET t == title IN
    IF INCLUDE_KEYWORDS # {} /\ ~(\E k \in INCLUDE_KEYWORDS : Contains(t, lower(k)))
    THEN FALSE
    ELSE IF EXCLUDE_KEYWORDS # {} /\ (\E k \in EXCLUDE_KEYWORDS : Contains(t, lower(k)))
    THEN FALSE
    ELSE TRUE

title_allowed(title) ==
    LET t == lower(title) IN
    IF INCLUDE_KEYWORDS # {} /\ ~(\E k \in INCLUDE_KEYWORDS : Contains(t, lower(k)))
    THEN FALSE
    ELSE IF EXCLUDE_KEYWORDS # {} /\ (\E k \in EXCLUDE_KEYWORDS : Contains(t, lower(k)))
    THEN FALSE
    ELSE TRUE

\* the sort key (x.timestamp, x.tx_hash)
KeyLess(a, b) ==
    \/ a.timestamp < b.timestamp
    \/ a.timestamp = b.timestamp /\ HashRank(a.tx_hash) < HashRank(b.tx_hash)

InsertSorted(s, t) ==
    LET p == Cardinality({j \in 1..Len(s) : ~KeyLess(t, s[j])}) IN
    SubSeq(s, 1, p) \o <<t>> \o SubSeq(s, p + 1, Len(s))

\* mutant: the batch is walked in the order the feed gave it
sorted_feed_order(s) == s

RECURSIVE sorted(_)
\* sorted(trades, key=...): stable, ascending
sorted(s) ==
    IF s = <<>> THEN <<>>
    ELSE InsertSorted(sorted(SubSeq(s, 1, Len(s) - 1)), s[Len(s)])

----------------------------------------------------------------------------
(* Scoring                                                                 *)

\* days_since: None when `not ts` (None, and also 0), else the age; the age
\* is kept in seconds, age_days being age / 86400.0
days_since(ts, clock) ==
    IF IsNone(ts) \/ Val(ts) = 0 THEN None ELSE Some(clock - Val(ts))

\* f"{age_days:.1f}": the age in tenths of a day, rounded to nearest, a tie
\* going to the even tenth (the ties of the model are quarter days, which a
\* float holds exactly)
Tenths(age) ==
    LET unit == DAY_SECONDS \div 10
        q == age \div unit
        r == age % unit
    IN IF 2 * r > unit \/ (2 * r = unit /\ q % 2 = 1) THEN q + 1 ELSE q

Reason(tag, arg) == [tag |-> tag, arg |-> arg]

\* mutant: the two tiers are exclusive (elif), the higher one paying the bonus only
score_trade_elif(t, p, hits, clock) ==
    LET age_days == days_since(p.first_seen_ts, clock)
        fresh == ~IsNone(age_days) /\ Val(age_days) <= FRESH_DAYS * DAY_SECONDS
        s1 == IF fresh THEN W_FRESH ELSE 0
        r1 == IF fresh THEN <<Reason("fresh_wallet", Tenths(Val(age_days)))>> ELSE <<>>
        low == ~IsNone(p.traded_markets) /\ Val(p.traded_markets) <= LOW_ACTIVITY_MARKETS
        s2 == IF low THEN s1 + W_LOW_ACTIVITY ELSE s1
        r2 == IF low THEN Append(r1, Reason("low_activity", Val(p.traded_markets))) ELSE r1
        cash == est_cash(t)
        s4 == IF cash >= BIG_TRADE_TIER_2 THEN s2 + VERY_BIG_BONUS
              ELSE IF cash >= BIG_TRADE_TIER_1 THEN s2 + W_BIG_TRADE ELSE s2
        r4 == IF cash >= BIG_TRADE_TIER_2 THEN Append(r2, Reason("very_big_trade", 0))
              ELSE IF cash >= BIG_TRADE_TIER_1 THEN Append(r2, Reason("big_trade", cash))
              ELSE r2
        s5 == IF hits >= CLUSTER_COUNT THEN s4 + W_CLUSTER ELSE s4
        r5 == IF hits >= CLUSTER_COUNT THEN Append(r4, Reason("cluster", hits)) ELSE r4
    IN [score |-> s5, reasons |-> r5]

score_trade(t, p, hits, clock) ==
    LET age_days == days_since(p.first_seen_ts, clock)
        fresh == ~IsNone(age_days) /\ Val(age_days) <= FRESH_DAYS * DAY_SECONDS
        s1 == IF fresh THEN W_FRESH ELSE 0
        r1 == IF fresh THEN <<Reason("fresh_wallet", Tenths(Val(age_days)))>> ELSE <<>>
        low == ~IsNone(p.traded_markets) /\ Val(p.traded_markets) <= LOW_ACTIVITY_MARKETS
        s2 == IF low THEN s1 + W_LOW_ACTIVITY ELSE s1
        r2 == IF low THEN Append(r1, Reason("low_activity", Val(p.traded_markets))) ELSE r1
        cash == est_cash(t)
        s3 == IF cash >= BIG_TRADE_TIER_1 THEN s2 + W_BIG_TRADE ELSE s2
        r3 == IF cash >= BIG_TRADE_TIER_1 THEN Append(r2, Reason("big_trade", cash)) ELSE r2
        s4 == IF cash >= BIG_TRADE_TIER_2 THEN s3 + VERY_BIG_BONUS ELSE s3
        r4 == IF cash >= BIG_TRADE_TIER_2 THEN Append(r3, Reason("very_big_trade", 0)) ELSE r3
        s5 == IF hits >= CLUSTER_COUNT THEN s4 + W_CLUSTER ELSE s4
        r5 == IF hits >= CLUSTER_COUNT THEN Append(r4, Reason("cluster", hits)) ELSE r4
    IN [score |-> s5, reasons |-> r5]

----------------------------------------------------------------------------
(* main(): one polling cycle after the other                               *)

NoProfile == WalletProfile("", None, None, None)
NoPost == [tx_hash |-> "", outcome |-> "none"]

\* db_connect() on a new database file, the clock at Now0
BootWith(start, batch0, down0) ==
    /\ now = Now0
    /\ seen_trades = {}
    /\ wallet_cache = {}
    /\ wallet_hits = <<>>
    /\ pc = start
    /\ trades = <<>>
    /\ idx = 1
    /\ cluster_hits = 0
    /\ profile = NoProfile
    /\ http_calls = <<>>
    /\ profile_src = "none"
    /\ alerts = [h \in Hashes |-> 0]
    /\ discord = NoPost
    /\ cycle_log = ""
    /\ marked = [h \in Hashes |-> 0]
    /\ cycles = 0
    /\ ticks = 0
    /\ evals = <<>>
    /\ feed = batch0
    /\ down = down0

\* the environment is left free: any batch at each poll, any call failing
Boot(start) == BootWith(start, <<>>, {})

Init == Boot("poll")

stores == <<seen_trades, wallet_cache, wallet_hits>>
batch == <<trades, idx>>
locals == <<cluster_hits, profile>>
enrich_hist == <<http_calls, profile_src>>
outputs == <<alerts, discord, cycle_log>>
counters == <<cycles, ticks, evals>>
env == <<feed, down>>

\* the batches the feed can answer: any rows, in any order, repeated or not
Batches == UNION {[1..n -> FeedTrades] : n \in 0..MaxBatch}

\* trades = fetch_recent_large_trades(...); trades = sorted(trades, ...)
FetchTrades(data) ==
    /\ pc = "poll"
    /\ cycles < MaxCycles
    /\ trades' = sorted(data)
    /\ idx' = 1
    /\ pc' = "loop"
    /\ cycles' = cycles + 1
    /\ UNCHANGED <<now, stores, locals, enrich_hist, outputs, marked, ticks, evals, env>>

LogKinds == {"[http]", "[err]"}

\* http_get("/trades") raises: one of the except clauses of the cycle prints
FetchTradesRaises(kind) ==
    /\ pc = "poll"
    /\ cycles < MaxCycles
    /\ pc' = "sleep"
    /\ cycles' = cycles + 1
    /\ cycle_log' = kind
    /\ UNCHANGED <<now, stores, batch, locals, enrich_hist, alerts, discord, marked,
                   ticks, evals, env>>

InLoop == pc = "loop" /\ idx <= Len(trades)
Current == trades[idx]

Filtered(t) == t.tx_hash = "" \/ t.proxy_wallet = "" \/ ~title_allowed(t.title)

\* `continue` on an empty tx_hash or proxy_wallet, or a title not allowed
SkipFiltered ==
    /\ InLoop
    /\ Filtered(Current)
    /\ idx' = idx + 1
    /\ UNCHANGED <<now, stores, pc, trades, locals, enrich_hist, outputs, marked, counters, env>>

\* `continue` when db_seen_trade
SkipSeen ==
    /\ InLoop
    /\ ~Filtered(Current)
    /\ db_seen_trade(seen_trades, Current.tx_hash)
    /\ idx' = idx + 1
    /\ UNCHANGED <<now, stores, pc, trades, locals, enrich_hist, outputs, marked, counters, env>>

\* mutant: the hits are counted before the hit of the trade is recorded
RecordHitCountFirst ==
    /\ pc = "loop" /\ idx <= Len(trades)
    /\ ~(trades[idx].tx_hash = "" \/ trades[idx].proxy_wallet = ""
          \/ ~title_allowed(trades[idx].title))
    /\ ~db_seen_trade(seen_trades, trades[idx].tx_hash)
    /\ cluster_hits' = db_count_wallet_hits(wallet_hits, trades[idx].proxy_wallet,
                                            now - (CLUSTER_MINUTES * 60))
    /\ wallet_hits' = db_add_wallet_hit(wallet_hits, trades[idx].proxy_wallet,
                                        trades[idx].timestamp)
    /\ pc' = "enrich"
    /\ UNCHANGED <<now, seen_trades, wallet_cache, batch, profile, enrich_hist, outputs,
                   marked, counters, env>>

\* db_add_wallet_hit, then db_count_wallet_hits over the window ending now
RecordHit ==
    /\ InLoop
    /\ ~Filtered(Current)
    /\ ~db_seen_trade(seen_trades, Current.tx_hash)
    /\ wallet_hits' = db_add_wallet_hit(wallet_hits, Current.proxy_wallet, Current.timestamp)
    /\ cluster_hits' = db_count_wallet_hits(wallet_hits', Current.proxy_wallet,
                                            now - (CLUSTER_MINUTES * 60))
    /\ pc' = "enrich"
    /\ UNCHANGED <<now, seen_trades, wallet_cache, batch, profile, enrich_hist, outputs,
                   marked, counters, env>>

HistoryCalls == <<"/traded", "/activity:first", "/activity:24h">>

\* get_wallet_profile: the cached profile is returned
\* mutant: a read of the cache refreshes the row's updated_at (sliding expiry)
GetProfileCachedTouch ==
    /\ pc = "enrich"
    /\ LET cached == db_get_wallet_cache(wallet_cache, Current.proxy_wallet, now,
                                         MAX_AGE_SECONDS) IN
        /\ ~IsNone(cached)
        /\ profile' = Val(cached)
        /\ wallet_cache' = db_set_wallet_cache(wallet_cache, Val(cached), now)
    /\ http_calls' = <<>>
    /\ profile_src' = "cache"
    /\ pc' = "score"
    /\ UNCHANGED <<now, seen_trades, wallet_hits, batch, cluster_hits, outputs, marked,
                   counters, env>>

GetProfileCached ==
    /\ pc = "enrich"
    /\ LET cached == db_get_wallet_cache(wallet_cache, Current.proxy_wallet, now,
                                         MAX_AGE_SECONDS) IN
        /\ ~IsNone(cached)
        /\ profile' = Val(cached)
    /\ http_calls' = <<>>
    /\ profile_src' = "cache"
    /\ pc' = "score"
    /\ UNCHANGED <<now, stores, batch, cluster_hits, outputs, marked, counters, env>>

\* get_wallet_profile: no usable cache row, the three fetches answer
GetProfileFetched(traded, first_seen, recent) ==
    /\ pc = "enrich"
    /\ IsNone(db_get_wallet_cache(wallet_cache, Current.proxy_wallet, now, MAX_AGE_SECONDS))
    /\ profile' = WalletProfile(Current.proxy_wallet, traded, first_seen, recent)
    /\ wallet_cache' = db_set_wallet_cache(wallet_cache, profile', now)
    /\ http_calls' = HistoryCalls
    /\ profile_src' = "fetch"
    /\ pc' = "score"
    /\ UNCHANGED <<now, seen_trades, wallet_hits, batch, cluster_hits, outputs, marked,
                   counters, env>>

\* mutant: the exception of a history call leaves main() (no except around the cycle)
GetProfileRaisesFatal(k, kind) ==
    /\ pc = "enrich"
    /\ IsNone(db_get_wallet_cache(wallet_cache, Current.proxy_wallet, now, MAX_AGE_SECONDS))
    /\ http_calls' = SubSeq(HistoryCalls, 1, k)
    /\ profile_src' = "raised"
    /\ cycle_log' = kind
    /\ pc' = "exit"
    /\ UNCHANGED <<now, stores, batch, locals, alerts, discord, marked, counters, env>>

\* get_wallet_profile: no usable cache row, and http_get raises in the k-th
\* fetch; nothing catches it before the except clauses of main()
GetProfileRaises(k, kind) ==
    /\ pc = "enrich"
    /\ IsNone(db_get_wallet_cache(wallet_cache, Current.proxy_wallet, now, MAX_AGE_SECONDS))
    /\ http_calls' = SubSeq(HistoryCalls, 1, k)
    /\ profile_src' = "raised"
    /\ cycle_log' = kind
    /\ pc' = "sleep"
    /\ UNCHANGED <<now, stores, batch, locals, alerts, discord, marked, counters, env>>

\* what becomes of the alert after it is printed: "off" when no webhook is
\* configured (send_discord is not called), else the post is "delivered" or
\* it is "failed".  The webhook is read once at start-up; the model lets it
\* differ from alert to alert, which only adds behaviours.
Posts == {"off", "delivered", "failed"}

\* send_discord: the post is delivered, or its exception is caught and
\* "[discord] failed" is printed; nothing is raised to the caller
send_discord(tx_hash, post) == [tx_hash |-> tx_hash, outcome |-> post]

\* the score of the trade being processed, as main() computes it
CurrentScore == score_trade(Current, profile, cluster_hits, now)

\* if score >= ALERT_SCORE_THRESHOLD
ShouldAlert(sc) == sc >= ALERT_SCORE_THRESHOLD

\* score below the threshold: no alert; db_mark_trade_seen
DecideSuppressed ==
    /\ pc = "score"
    /\ ~ShouldAlert(CurrentScore.score)
    /\ seen_trades' = db_mark_trade_seen(seen_trades, Current)
    /\ marked' = [marked EXCEPT ![Current.tx_hash] = @ + 1]
    /\ idx' = idx + 1
    /\ pc' = "loop"
    /\ UNCHANGED <<now, wallet_cache, wallet_hits, trades, locals, enrich_hist, outputs,
                   counters, env>>

\* mutant: send_discord lets the exception of a failed post through, which
\* ends the cycle before db_mark_trade_seen
DecideAlertUncaught(post) ==
    /\ pc = "score"
    /\ ShouldAlert(CurrentScore.score)
    /\ alerts' = [alerts EXCEPT ![Current.tx_hash] = @ + 1]
    /\ discord' = IF post # "off" THEN send_discord(Current.tx_hash, post) ELSE discord
    /\ IF post = "failed"
       THEN /\ pc' = "sleep"
            /\ cycle_log' = "[err]"
            /\ UNCHANGED <<seen_trades, marked, idx>>
       ELSE /\ seen_trades' = db_mark_trade_seen(seen_trades, Current)
            /\ marked' = [marked EXCEPT ![Current.tx_hash] = @ + 1]
            /\ idx' = idx + 1
            /\ pc' = "loop"
            /\ UNCHANGED cycle_log
    /\ UNCHANGED <<now, wallet_cache, wallet_hits, trades, locals, enrich_hist, counters, env>>

\* score at the threshold or above: print the alert, send_discord when the
\* webhook is set (delivered or not), then db_mark_trade_seen
DecideAlert(post) ==
    /\ pc = "score"
    /\ ShouldAlert(CurrentScore.score)
    /\ alerts' = [alerts EXCEPT ![Current.tx_hash] = @ + 1]
    /\ discord' = IF post # "off" THEN send_discord(Current.tx_hash, post) ELSE discord
    /\ seen_trades' = db_mark_trade_seen(seen_trades, Current)
    /\ marked' = [marked EXCEPT ![Current.tx_hash] = @ + 1]
    /\ idx' = idx + 1
    /\ pc' = "loop"
    /\ UNCHANGED <<now, wallet_cache, wallet_hits, trades, locals, enrich_hist, cycle_log,
                   counters, env>>

\* the for loop is exhausted
EndCycle ==
    /\ pc = "loop"
    /\ idx > Len(trades)
    /\ pc' = "sleep"
    /\ UNCHANGED <<now, stores, batch, locals, enrich_hist, outputs, marked, counters, env>>

\* time.sleep(POLL_SECONDS), and back to the top of `while True`.  The
\* locals of the finished cycle are dead (each is assigned again before it
\* is read), so the model forgets them here, with the cycle's history.
Sleep ==
    /\ pc = "sleep"
    /\ now' = now + POLL_SECONDS
    /\ pc' = "poll"
    /\ trades' = <<>>
    /\ idx' = 1
    /\ cluster_hits' = 0
    /\ profile' = NoProfile
    /\ http_calls' = <<>>
    /\ profile_src' = "none"
    /\ cycle_log' = ""
    /\ discord' = NoPost
    /\ UNCHANGED <<stores, alerts, marked, counters, env>>

\* where the clock may jump: while the program waits for the /trades or the
\* account-history answers, and between two calls of a harness
TickPoints == {"poll", "enrich", "call"}

Tick(d) ==
    /\ ticks < MaxTicks
    /\ pc \in TickPoints
    /\ now' = now + d
    /\ ticks' = ticks + 1
    /\ UNCHANGED <<stores, pc, batch, locals, enrich_hist, outputs, marked, cycles, evals, env>>

Next ==
    \/ \E data \in Batches : FetchTrades(data)
    \/ \E kind \in LogKinds : FetchTradesRaises(kind)
    \/ SkipFiltered
    \/ SkipSeen
    \/ RecordHit
    \/ GetProfileCached
    \/ \E a \in HistoryAnswers : GetProfileFetched(a[1], a[2], a[3])
    \/ \E k \in 1..3, kind \in LogKinds : GetProfileRaises(k, kind)
    \/ DecideSuppressed
    \/ \E post \in Posts : DecideAlert(post)
    \/ EndCycle
    \/ Sleep
    \/ \E d \in ClockJumps : Tick(d)

Spec == Init /\ [][Next]_vars

\* the batches of the runs checked for progress
FairBatches == UNION {[1..n -> FeedTrades] : n \in 0..MaxFairBatch}

\* the steps of the program itself, the clock moving by the sleeps only
Step ==
    \/ \E data \in FairBatches : FetchTrades(data)
    \/ \E kind \in LogKinds : FetchTradesRaises(kind)
    \/ SkipFiltered
    \/ SkipSeen
    \/ RecordHit
    \/ GetProfileCached
    \/ \E a \in HistoryAnswers : GetProfileFetched(a[1], a[2], a[3])
    \/ \E k \in 1..3, kind \in LogKinds : GetProfileRaises(k, kind)
    \/ DecideSuppressed
    \/ \E post \in Posts : DecideAlert(post)
    \/ EndCycle
    \/ Sleep

\* main() is one thread that runs on: every call it makes returns or raises
\* (the HTTP calls have timeouts, time.sleep returns), so a step that stays
\* possible is taken
SpecFair == Init /\ [][Step]_vars /\ WF_vars(Step)

----------------------------------------------------------------------------
(* score_trade applied to one input at several moments                     *)

ScoreProfiles ==
    {WalletProfile("w1", a, b, c) :
        a \in TradedAnswers, b \in FirstSeenAnswers, c \in RecentCashAnswers}

ClusterCounts == 0..(CLUSTER_COUNT + 1)

\* main() scores the trades that pass the filters
ScoreTrades == {t \in AllTrades : ~Filtered(t)}

\* any such trade, any profile, any cluster count: the arguments of one call
InitScore ==
    /\ now = Now0
    /\ seen_trades = {}
    /\ wallet_cache = {}
    /\ wallet_hits = <<>>
    /\ pc = "call"
    /\ trades \in {<<t>> : t \in ScoreTrades}
    /\ idx = 1
    /\ cluster_hits \in ClusterCounts
    /\ profile \in ScoreProfiles
    /\ http_calls = <<>>
    /\ profile_src = "none"
    /\ alerts = [h \in Hashes |-> 0]
    /\ discord = NoPost
    /\ cycle_log = ""
    /\ marked = [h \in Hashes |-> 0]
    /\ cycles = 0
    /\ ticks = 0
    /\ evals = <<>>
    /\ feed = <<>>
    /\ down = {}

\* score, reasons = score_trade(t, profile, cluster_hits), at the present time
Evaluate ==
    /\ pc = "call"
    /\ Len(evals) < MaxEvals
    /\ evals' = Append(evals, [at |-> now, score |-> CurrentScore.score,
                               reasons |-> CurrentScore.reasons])
    /\ UNCHANGED <<now, stores, pc, batch, locals, enrich_hist, outputs, marked,
                   cycles, ticks, env>>

NextScore ==
    \/ Evaluate
    \/ \E d \in ClockJumps : Tick(d)

SpecScore == InitScore /\ [][NextScore]_vars

----------------------------------------------------------------------------
(* The polling loop against a feed that returns the same batch at every    *)
(* poll and a history source that fails for some wallets, always           *)

InitStarve == \E data \in Batches, d \in SUBSET Wallets : BootWith("poll", data, d)

\* the three history calls answer for a wallet that is not down
StarveFetched(traded, first_seen, recent) ==
    /\ GetProfileFetched(traded, first_seen, recent)
    /\ Current.proxy_wallet \notin down

\* a history call raises for a wallet that is down
StarveRaises(k, kind) ==
    /\ GetProfileRaises(k, kind)
    /\ Current.proxy_wallet \in down

NextStarve ==
    \/ FetchTrades(feed)
    \/ SkipFiltered
    \/ SkipSeen
    \/ RecordHit
    \/ GetProfileCached
    \/ \E a \in HistoryAnswers : StarveFetched(a[1], a[2], a[3])
    \/ \E k \in 1..3, kind \in LogKinds : StarveRaises(k, kind)
    \/ DecideSuppressed
    \/ \E post \in Posts : DecideAlert(post)
    \/ EndCycle
    \/ Sleep

SpecStarve == InitStarve /\ [][NextStarve]_vars

----------------------------------------------------------------------------
(* The store functions called in any order                                 *)

InitStore == Boot("call")

HitTimes == {t.timestamp : t \in AllTrades}

\* db_mark_trade_seen(conn, t), for any trade
StoreMarkSeen(t) ==
    /\ pc = "call"
    /\ marked[t.tx_hash] < MaxMarks
    /\ seen_trades' = db_mark_trade_seen(seen_trades, t)
    /\ marked' = [marked EXCEPT ![t.tx_hash] = @ + 1]
    /\ UNCHANGED <<now, wallet_cache, wallet_hits, pc, batch, locals, enrich_hist,
                   outputs, counters, env>>

\* db_add_wallet_hit(conn, wallet, hit_ts), for any wallet and time
StoreAddHit(w, ts) ==
    /\ pc = "call"
    /\ Len(wallet_hits) < MaxStoreHits
    /\ wallet_hits' = db_add_wallet_hit(wallet_hits, w, ts)
    /\ UNCHANGED <<now, seen_trades, wallet_cache, pc, batch, locals, enrich_hist,
                   outputs, marked, counters, env>>

\* the window starts asked for: every hit time, the second before and after
WindowStarts == UNION {{ts - 1, ts, ts + 1} : ts \in HitTimes}

\* db_count_wallet_hits(conn, wallet, since_ts), for any wallet and window start
StoreCountHits(w, since_ts) ==
    /\ pc = "call"
    /\ cluster_hits' = db_count_wallet_hits(wallet_hits, w, since_ts)
    /\ UNCHANGED <<now, stores, pc, batch, profile, enrich_hist, outputs, marked, counters, env>>

NextStore ==
    \/ \E t \in AllTrades : StoreMarkSeen(t)
    \/ \E w \in Wallets, ts \in HitTimes : StoreAddHit(w, ts)
    \/ \E d \in ClockJumps : Tick(d)

SpecStore == InitStore /\ [][NextStore]_vars

\* the hit log alone: hits added and counted in any order
NextCount ==
    \/ \E w \in Wallets, ts \in HitTimes : StoreAddHit(w, ts)
    \/ \E w \in Wallets, ts \in WindowStarts : StoreCountHits(w, ts)
    \/ \E d \in ClockJumps : Tick(d)

SpecCount == InitStore /\ [][NextCount]_vars

----------------------------------------------------------------------------
(* Properties                                                              *)

SeenRows(h) == {r \in seen_trades : r.tx_hash = h}
CacheRows(w) == {r \in wallet_cache : r.wallet = w}
RowProfile(r) == WalletProfile(r.wallet, r.traded_markets, r.first_seen_ts, r.recent_cash_24h)
WindowStart == now - (CLUSTER_MINUTES * 60)

\* C1: over any sequence of cycles, with a trade fed again in a later cycle or
\* twice in one batch and with cycles ended by an exception, no transaction
\* hash has more than one alert, and an alerted trade is in the ledger.
C1_OneAlertPerTrade ==
    \A h \in Hashes : alerts[h] <= 1 /\ (alerts[h] = 1 => db_seen_trade(seen_trades, h))

\* an alerted trade is fed again in the second cycle and is about to be skipped
C1_Witness ==
    /\ cycles = 2
    /\ InLoop
    /\ ~Filtered(Current)
    /\ alerts[Current.tx_hash] = 1

\* C2: however often db_mark_trade_seen is called for a transaction hash, the
\* ledger holds exactly one row for it, and none for a hash never marked.
C2_OneLedgerRow ==
    \A h \in Hashes : Cardinality(SeenRows(h)) = IF marked[h] > 0 THEN 1 ELSE 0

\* a hash marked twice, the second time with another wallet
C2_Witness ==
    /\ marked["0xa"] = 2
    /\ SeenRows("0xa") = {SeenRow(TradeA2)}

\* C3: two evaluations of score_trade on the same trade, profile and cluster
\* count give the same score and the same reasons, whenever they are made.
C3_ScoreDeterministic ==
    \A i, j \in DOMAIN evals :
        evals[i].score = evals[j].score /\ evals[i].reasons = evals[j].reasons

\* C4: when a fetch of get_wallet_profile fails, all three requests are still
\* made, and the profile is written to the cache at the present time and
\* returned for scoring.
C4_FailedFetchTolerated ==
    profile_src = "raised" =>
        /\ http_calls = HistoryCalls
        /\ \E r \in CacheRows(Current.proxy_wallet) : r.updated_at = now
        /\ pc = "score"

\* C5: when a fetch of the account history fails for one trade, the cycle goes
\* on: it does not end while an unfiltered, unseen trade follows in the batch.
C5_RemainingProcessed ==
    ( /\ profile_src = "raised"
      /\ \E j \in (idx + 1)..Len(trades) :
            ~Filtered(trades[j]) /\ ~db_seen_trade(seen_trades, trades[j].tx_hash) )
    => pc # "sleep"

C7_CacheFreshness ==
    [][(pc = "enrich" /\ pc' = "score") =>
          LET w == Current.proxy_wallet IN
          IF \E r \in CacheRows(w) : now - r.updated_at <= MAX_AGE_SECONDS
          THEN /\ profile_src' = "cache"
               /\ wallet_cache' = wallet_cache
               /\ \E r \in CacheRows(w) : profile' = RowProfile(r)
          ELSE /\ profile_src' = "fetch"
               /\ {r \in wallet_cache' : r.wallet = w} = {CacheRow(profile', now)}]_vars

\* a cache row aged exactly MAX_AGE_SECONDS is returned
C7_Witness ==
    /\ pc = "score"
    /\ profile_src = "cache"
    /\ \E r \in CacheRows(Current.proxy_wallet) : now - r.updated_at = MAX_AGE_SECONDS

\* the rules of the score, one by one
RuleFresh(p, clock) ==
    ~IsNone(p.first_seen_ts) /\ clock - Val(p.first_seen_ts) <= FRESH_DAYS * DAY_SECONDS
RuleLowActivity(p) ==
    ~IsNone(p.traded_markets) /\ Val(p.traded_markets) <= LOW_ACTIVITY_MARKETS
RuleBigTrade(t) == est_cash(t) >= BIG_TRADE_TIER_1
RuleVeryBigTrade(t) == RuleBigTrade(t) /\ est_cash(t) >= BIG_TRADE_TIER_2
RuleCluster(hits) == hits >= CLUSTER_COUNT

Weight(rule, w) == IF rule THEN w ELSE 0
Tag(rule, tag) == IF rule THEN <<tag>> ELSE <<>>
Tags(rs) == [k \in 1..Len(rs) |-> rs[k].tag]

\* C8: the score is the sum of the weights of the rules triggered and the
\* reasons come in the order fresh, low activity, big trade, very big trade,
\* cluster; est_cash 20000, 3 markets, first activity 5 days ago and 2 hits
\* give 9 with the reasons fresh, low activity, big trade, cluster: an alert.
C8_ScoreIsSumOfWeights ==
    \A k \in DOMAIN evals :
        LET e == evals[k]
            t == Current
            p == profile
        IN /\ e.score = Weight(RuleFresh(p, e.at), W_FRESH)
                        + Weight(RuleLowActivity(p), W_LOW_ACTIVITY)
                        + Weight(RuleBigTrade(t), W_BIG_TRADE)
                        + Weight(RuleVeryBigTrade(t), VERY_BIG_BONUS)
                        + Weight(RuleCluster(cluster_hits), W_CLUSTER)
           /\ Tags(e.reasons) = Tag(RuleFresh(p, e.at), "fresh_wallet")
                                \o Tag(RuleLowActivity(p), "low_activity")
                                \o Tag(RuleBigTrade(t), "big_trade")
                                \o Tag(RuleVeryBigTrade(t), "very_big_trade")
                                \o Tag(RuleCluster(cluster_hits), "cluster")
           /\ ( /\ est_cash(t) = 20000
                /\ p.traded_markets = Some(3)
                /\ p.first_seen_ts = Some(e.at - 5 * DAY_SECONDS)
                /\ cluster_hits = 2 )
              => /\ e.score = 9
                 /\ Tags(e.reasons) = <<"fresh_wallet", "low_activity", "big_trade", "cluster">>
                 /\ ShouldAlert(e.score)

\* the example of the claim has been evaluated, twice
C8_Witness ==
    /\ Len(evals) = 2
    /\ est_cash(Current) = 20000
    /\ profile.traded_markets = Some(3)
    /\ profile.first_seen_ts = Some(evals[1].at - 5 * DAY_SECONDS)
    /\ cluster_hits = 2
    /\ evals[1].score = 9

\* C9: in every evaluation of score_trade, a profile with every field unknown
\* triggers neither the freshness nor the low-activity rule, and a field that
\* is known is never taken for unknown: traded_markets = 0 triggers the
\* low-activity rule, and the age of a known first_seen_ts is known.
C9_UnknownSafe ==
    \A k \in DOMAIN evals :
        /\ ( /\ IsNone(profile.traded_markets)
             /\ IsNone(profile.first_seen_ts)
             /\ IsNone(profile.recent_cash_24h) )
           => \A n \in 1..Len(evals[k].reasons) :
                 evals[k].reasons[n].tag \notin {"fresh_wallet", "low_activity"}
        /\ (profile.traded_markets = Some(0))
           => \E n \in 1..Len(evals[k].reasons) : evals[k].reasons[n].tag = "low_activity"
        /\ ~IsNone(profile.first_seen_ts)
           => ~IsNone(days_since(profile.first_seen_ts, evals[k].at))

\* C10: an alert whose post fails still ends with the trade in the ledger and
\* the loop going on, nothing being logged by the cycle's except clauses; and
\* every alerted trade is in the ledger, alerted once.
C10_SeenWhateverDispatch ==
    /\ [](\A h \in Hashes : alerts[h] >= 1 => (db_seen_trade(seen_trades, h) /\ alerts[h] = 1))
    /\ [][(alerts' # alerts) =>
             /\ db_seen_trade(seen_trades', Current.tx_hash)
             /\ pc' = "loop"
             /\ idx' = idx + 1
             /\ cycle_log' = cycle_log]_vars

\* the post of an alert has failed, the trade is in the ledger and the loop goes on
C10_Witness ==
    /\ discord.outcome = "failed"
    /\ pc = "loop"
    /\ db_seen_trade(seen_trades, discord.tx_hash)
    /\ alerts[discord.tx_hash] = 1
    /\ cycle_log = ""

\* the trades the filters drop: no transaction id, no account id, or a title
\* the keyword policy rejects (the one title of the feed naming an excluded keyword)
Dropped(t) == t.tx_hash = "" \/ t.proxy_wallet = "" \/ t.title = TitleSports

\* C11: a dropped trade is dropped before deduplication: it never reaches the
\* cluster, enrichment or scoring stage, its row is never in the ledger, and no
\* store or alert ever carries an empty transaction id or an empty account id.
C11_FilteredNeverProcessed ==
    /\ pc \in {"enrich", "score"} => ~Dropped(Current)
    /\ \A t \in FeedTrades : Dropped(t) => SeenRow(t) \notin seen_trades
    /\ \A r \in seen_trades : r.tx_hash # "" /\ r.wallet # ""
    /\ \A k \in DOMAIN wallet_hits : wallet_hits[k].wallet # ""
    /\ \A r \in wallet_cache : r.wallet # ""
    /\ alerts[""] = 0 /\ marked[""] = 0

\* a batch of two dropped trades of different kinds, one of them rejected by
\* its title, has been walked through and every store is still empty
C11_Witness ==
    /\ pc = "loop"
    /\ Len(trades) = 2
    /\ idx = 3
    /\ Dropped(trades[1]) /\ Dropped(trades[2])
    /\ trades[1] # trades[2]
    /\ TradeSports \in {trades[1], trades[2]}
    /\ seen_trades = {} /\ wallet_hits = <<>> /\ wallet_cache = {}
    /\ \A h \in Hashes : alerts[h] = 0 /\ marked[h] = 0

\* the hits of an account recorded exactly at, and at or after, a time
HitsAt(w, ts) == {k \in DOMAIN wallet_hits : wallet_hits[k].wallet = w /\ wallet_hits[k].hit_ts = ts}
HitsOf(w) == {k \in DOMAIN wallet_hits : wallet_hits[k].wallet = w}

\* C12: the count of an account's hits since t0 includes the hits stamped
\* exactly t0, is never negative, counts every hit of the account from the
\* earliest start and none after the latest, and never grows as t0 grows.
C12_CountInclusiveMonotone ==
    \A w \in Wallets :
        /\ \A t0 \in WindowStarts :
              /\ db_count_wallet_hits(wallet_hits, w, t0) >= 0
              /\ db_count_wallet_hits(wallet_hits, w, t0)
                    = db_count_wallet_hits(wallet_hits, w, t0 + 1) + Cardinality(HitsAt(w, t0))
        /\ \A t0, t1 \in WindowStarts :
              t0 <= t1 => db_count_wallet_hits(wallet_hits, w, t0)
                            >= db_count_wallet_hits(wallet_hits, w, t1)
        /\ \A t0 \in WindowStarts :
              (\A k \in HitsOf(w) : wallet_hits[k].hit_ts >= t0)
                 => db_count_wallet_hits(wallet_hits, w, t0) = Cardinality(HitsOf(w))
        /\ \A t0 \in WindowStarts :
              (\A k \in HitsOf(w) : wallet_hits[k].hit_ts < t0)
                 => db_count_wallet_hits(wallet_hits, w, t0) = 0

\* an account with hits at two times, the other account with none, and the
\* count just asked for at the later time: the hit stamped exactly then
C12_Witness ==
    /\ pc = "call"
    /\ \E i, j \in DOMAIN wallet_hits :
          /\ wallet_hits[i].wallet = "w1" /\ wallet_hits[j].wallet = "w1"
          /\ db_count_wallet_hits(wallet_hits, "w2", wallet_hits[i].hit_ts) = 0
          /\ wallet_hits[i].hit_ts < wallet_hits[j].hit_ts
          /\ cluster_hits = 1
          /\ db_count_wallet_hits(wallet_hits, "w1", wallet_hits[j].hit_ts) = 1
          /\ db_count_wallet_hits(wallet_hits, "w1", wallet_hits[i].hit_ts) = 2
          /\ db_count_wallet_hits(wallet_hits, "w1", wallet_hits[j].hit_ts + 1) = 0

\* the processing key of a trade, compared field by field
KeyAtMost(a, b) ==
    \/ a.timestamp < b.timestamp
    \/ a.timestamp = b.timestamp /\ HashRank(a.tx_hash) <= HashRank(b.tx_hash)

\* C13: whatever order the feed returned the batch in, it is walked in
\* ascending (timestamp, transaction id) order: the batch held by the loop is
\* in that order, and while a trade is at the cluster, enrichment or scoring
\* stage every trade before it in that order has been dropped or is in the ledger.
C13_AscendingOrder ==
    /\ \A i, j \in 1..Len(trades) : i < j => KeyAtMost(trades[i], trades[j])
    /\ pc \in {"enrich", "score"} =>
          \A i \in 1..(idx - 1) :
              Filtered(trades[i]) \/ db_seen_trade(seen_trades, trades[i].tx_hash)

\* the trade with the later transaction id but the earlier timestamp has been
\* committed first, and the other one is being scored
C13_Witness ==
    /\ pc = "score"
    /\ trades = <<TradeC, TradeA>>
    /\ idx = 2
    /\ marked["0xc"] = 1 /\ marked["0xa"] = 0
    /\ SeenRow(TradeC) \in seen_trades

\* C14: no failure ends the polling: every cycle that has begun, and the start
\* of the program, is followed by the beginning of the next cycle; an
\* exception logged by a cycle sends it to the sleep, and the sleep lasts
\* POLL_SECONDS and leads to the next poll.
C14_NextCycleBegins ==
    /\ \A n \in 0..(MaxCycles - 1) : (cycles = n) ~> (cycles = n + 1)
    /\ [][(cycle_log' # cycle_log /\ cycle_log' # "") => pc' = "sleep"]_vars
    /\ [][pc = "sleep" => (pc' = "poll" /\ now' = now + POLL_SECONDS)]_vars

\* the second cycle has begun one sleep after a first cycle that was aborted
\* by a history call: its hit is recorded and no trade was committed
C14_Witness ==
    /\ cycles = 2
    /\ pc = "loop"
    /\ idx = 1
    /\ Len(wallet_hits) = 1
    /\ seen_trades = {}
    /\ now = Now0 + POLL_SECONDS

\* C15: the estimated cash of a trade that score_trade is given is its size
\* times its price and is never negative.
C15_CashNeverNegative ==
    evals # <<>> =>
        /\ est_cash(Current) = Current.size * Current.price
        /\ est_cash(Current) >= 0

\* the rows of the hit log a trade has contributed (the trades of the feed
\* that pass the filters differ in account or timestamp)
HitsFrom(t) ==
    {k \in DOMAIN wallet_hits :
        wallet_hits[k].wallet = t.proxy_wallet /\ wallet_hits[k].hit_ts = t.timestamp}

\* C16: across cycles, aborted ones included, a trade contributes at most
\* one row to the hit log.
C16_OneHitPerTrade ==
    \A t \in FeedTrades : ~Filtered(t) => Cardinality(HitsFrom(t)) <= 1

\* C17: with a feed that returns the same batch at every poll, every trade of
\* it that passes the filters and whose account's history calls never fail
\* is in the ledger once the last cycle of the run has ended, whatever
\* happens to the history calls of the other accounts.
C17_HealthyTradeSeen ==
    (cycles = MaxCycles /\ pc = "sleep") =>
        \A j \in 1..Len(feed) :
            (~Filtered(feed[j]) /\ feed[j].proxy_wallet \notin down)
                => db_seen_trade(seen_trades, feed[j].tx_hash)

\* C18: the steps of a trade are strictly sequential: a trade at the
\* enrichment or scoring stage is not in the ledger and has its hit recorded,
\* a trade at the scoring stage has its own account's profile, every ledger
\* row has a hit of the same account and timestamp, a trade enters the ledger
\* only from the scoring stage, and an alert is dispatched from the scoring
\* stage exactly when the score reaches the threshold.
C18_StepsSequential ==
    /\ [](/\ \A r \in seen_trades :
               \E k \in DOMAIN wallet_hits :
                   wallet_hits[k].wallet = r.wallet /\ wallet_hits[k].hit_ts = r.timestamp
          /\ pc \in {"enrich", "score"} =>
                /\ ~db_seen_trade(seen_trades, Current.tx_hash)
                /\ HitsFrom(Current) # {}
          /\ pc = "score" =>
                /\ profile.wallet = Current.proxy_wallet
                /\ profile_src \in {"cache", "fetch"})
    /\ [][(seen_trades' # seen_trades) =>
             /\ pc = "score"
             /\ seen_trades' \ seen_trades = {SeenRow(Current)}
             /\ (alerts' # alerts) <=>
                   (score_trade(Current, profile, cluster_hits, now).score
                      >= ALERT_SCORE_THRESHOLD)]_vars
    /\ [][(alerts' # alerts) => (seen_trades' # seen_trades)]_vars

\* a trade is at the scoring stage with its hit recorded and its profile
\* fetched, another trade of the batch already in the ledger and alerted
C18_Witness ==
    /\ pc = "score"
    /\ idx = 2
    /\ profile_src = "fetch"
    /\ db_seen_trade(seen_trades, trades[1].tx_hash)
    /\ alerts[trades[1].tx_hash] = 1
    /\ ~db_seen_trade(seen_trades, Current.tx_hash)
    /\ HitsFrom(Current) # {}
    /\ HitsFrom(trades[1]) # {}

\* C19: a cache hit changes nothing: the profile handed over is the cached
\* row's, fields that are unknown stay unknown with no history call made,
\* and the cache, the row's updated_at included, is left as it was.
C19_CacheHitIsPure ==
    [][(pc = "enrich" /\ profile_src' = "cache") =>
         /\ UNCHANGED <<wallet_cache, seen_trades, wallet_hits, now>>
         /\ http_calls' = <<>>
         /\ \E r \in CacheRows(Current.proxy_wallet) :
               /\ now - r.updated_at <= MAX_AGE_SECONDS
               /\ profile' = RowProfile(r)
               /\ r \in wallet_cache']_vars

\* a cache hit on a row written before the present time, every field of
\* which is unknown: no history call is made and the row keeps its updated_at
C19_Witness ==
    /\ pc = "score"
    /\ profile_src = "cache"
    /\ http_calls = <<>>
    /\ IsNone(profile.traded_markets)
    /\ IsNone(profile.first_seen_ts)
    /\ IsNone(profile.recent_cash_24h)
    /\ \E r \in CacheRows(Current.proxy_wallet) : r.updated_at < now

\* C20: the hit log and the ledger are append-only: a step leaves every
\* recorded hit in place and unchanged, adding at most one at the end, and a
\* transaction id that is in the ledger is still in it after the step.
C20_AppendOnly ==
    [][/\ Len(wallet_hits') \in {Len(wallet_hits), Len(wallet_hits) + 1}
       /\ SubSeq(wallet_hits', 1, Len(wallet_hits)) = wallet_hits
       /\ \A h \in Hashes :
             db_seen_trade(seen_trades, h) => db_seen_trade(seen_trades', h)]_vars

\* in a later cycle, with an earlier hit in the log and an earlier trade in
\* the ledger, a second trade of the same account has been recorded and committed
C20_Witness ==
    /\ cycles = 2
    /\ Len(wallet_hits) >= 2
    /\ wallet_hits[1].wallet = wallet_hits[2].wallet
    /\ wallet_hits[1].hit_ts # wallet_hits[2].hit_ts
    /\ \E r1, r2 \in seen_trades :
          /\ r1.tx_hash # r2.tx_hash
          /\ r1.wallet = r2.wallet
          /\ r1.timestamp = wallet_hits[1].hit_ts
          /\ r2.timestamp = wallet_hits[2].hit_ts

====
